---------------------------- MODULE Spec2Model ----------------------------
(***************************************************************************)
(* A model of model/transformer.py (MASTER-pytorch): the Encoder and       *)
(* Decoder stacks, the decoder's target mask, scaled dot-product           *)
(* attention, the positional-encoding table and the shape bookkeeping of   *)
(* multi-head attention.                                                   *)
(*                                                                         *)
(* Five specifications share the module:                                   *)
(*   SpecStack      Encoder.forward / Decoder.forward as a data-flow: each *)
(*                  module call is appended to `calls`; a tensor is named  *)
(*                  by the index of the call that produced it.             *)
(*   SpecAttention  Decoder._generate_target_mask and the first self-      *)
(*                  attention call of Decoder.forward, on integer tensors. *)
(*   SpecCausal     dot_product_attention under subsequent_mask, called    *)
(*                  twice with keys and values that differ at a position.  *)
(*   SpecPE         PositionalEncoding.forward (slice, broadcast add).     *)
(*   SpecMHA        MultiHeadAttention.forward on tensor shapes.           *)
(* Python indices are 0-based and are kept 0-based here: a tensor axis of  *)
(* size n is the domain 0..n-1; a ModuleList is a sequence read through At.*)
(***************************************************************************)
EXTENDS Integers, Sequences, FiniteSets, TLC

\* ------------------------------------------------------------------ bounds
MaxStacks == 3
MaxLen == 3
MaxBatch == 2
\* SpecAttention draws a batch of B rows of L tokens with B * L <= MaxCells
MaxCells == 4
\* SpecMHA draws the model dimension from 1..MaxDim and any head count in it
MaxDim == 4

VARIABLES
    \* SpecStack: the fields of Encoder / Decoder and the frame of forward
    kind, with_encoder, share_parameter, stacks,
    attention, source_attention, position_feed_forward,
    position, layer_norm, embedding, modules,
    target_length, memory_length,
    pc, i, output, source_mask, target_mask, calls,
    \* SpecAttention: the decoder's first self-attention call
    _target, padding_symbol, normed_output, linears, self_mask, p_attn, x, apc,
    \* SpecCausal: dot_product_attention under subsequent_mask, run twice;
    \* product and product2 hold the two returned (product, p_attn) pairs
    _query, _key, _value, _mask, product, key2, value2, product2, cpc,
    \* SpecPE: PositionalEncoding (_max_len, the buffer pe) and one forward
    _dimensions, _max_len, pe, _input_tensor, pe_result, ppc,
    \* SpecMHA: MultiHeadAttention (h, d_k, model dimension) and the shapes
    \* of the tensors of one forward
    h, d_k, d_model, query_shape, key_shape, value_shape, mask_shape,
    x_shape, mpc

stackVars == <<kind, with_encoder, share_parameter, stacks,
               attention, source_attention, position_feed_forward,
               position, layer_norm, embedding, modules,
               target_length, memory_length,
               pc, i, output, source_mask, target_mask, calls>>

attnVars == <<_target, padding_symbol, normed_output, linears, self_mask, p_attn, x, apc>>

causalVars == <<_query, _key, _value, _mask, product, key2, value2, product2, cpc>>

peVars == <<_dimensions, _max_len, pe, _input_tensor, pe_result, ppc>>

mhaVars == <<h, d_k, d_model, query_shape, key_shape, value_shape, mask_shape,
             x_shape, mpc>>

vars == <<stackVars, attnVars, causalVars, peVars, mhaVars>>

\* what each component's steps leave alone: the other components
StackFrame == UNCHANGED <<attnVars, causalVars, peVars, mhaVars>>
AttnFrame == UNCHANGED <<stackVars, causalVars, peVars, mhaVars>>
CausalFrame == UNCHANGED <<stackVars, attnVars, peVars, mhaVars>>
PEFrame == UNCHANGED <<stackVars, attnVars, causalVars, mhaVars>>
MHAFrame == UNCHANGED <<stackVars, attnVars, causalVars, peVars>>

\* ------------------------------------------------------ SpecStack: helpers

\* nn.ModuleList([Cls(...) for _ in range(n)]): n freshly constructed modules,
\* numbered from base+1 in construction order.
ModuleList(base, n) == [k \in 1..n |-> base + k]

\* mutant: a list of _stacks modules in either mode
ListLengthPerLayer(share, nstacks) == nstacks

\* range(1 if _share_parameter else _stacks)
ListLength(share, nstacks) == IF share THEN 1 ELSE nstacks

\* actual_i = 0 if self.share_parameter else i
ActualI(idx) == IF share_parameter THEN 0 ELSE idx

\* list[idx] on a Python list: defined for 0 <= idx < len(list)
InRange(list, idx) == idx + 1 \in DOMAIN list
At(list, idx) == list[idx + 1]

\* mutant: a normalization module of its own for each stack iteration
NormModulePerLayer == layer_norm + i

\* self.layer_norm: the module a normalization step calls
NormModule == layer_norm

NoMask == [name |-> "none", shape |-> <<>>]

\* One module call: op, the module called (0: a functional op), the index
\* into its ModuleList (-1: not from a list), the stack iteration (-1:
\* outside the loop), the tensors read (call numbers; 0 is the argument of
\* forward, -1 is _memory) and the mask passed.
Call(op, module, index, iter, args, mask) ==
    [op |-> op, module |-> module, index |-> index, iter |-> iter,
     args |-> args, mask |-> mask]

\* The tensors a sub-layer reads, given the normed tensor n:
\*   self.attention[..](normed_output, normed_output, normed_output, mask)
\*   self.source_attention[..](normed_output, _memory, _memory, mask)
\*   self.position_feed_forward[..](normed_output)
SubInputs(op, n) ==
    CASE op = "attention" -> <<n, n, n>>
      [] op = "source_attention" -> <<n, -1, -1>>
      [] OTHER -> <<n>>

\* mutant: the residual adds to the normed tensor instead of the output
ResidualOnNormed(log, out, op, module, index, iter, mask) ==
    LET n == Len(log)
    IN  log \o << Call("layer_norm", layer_norm, -1, iter, <<out>>, NoMask),
                  Call(op, module, index, iter, SubInputs(op, n + 1), mask),
                  Call("dropout", 0, -1, iter, <<n + 2>>, NoMask),
                  Call("add", 0, -1, iter, <<n + 1, n + 3>>, NoMask) >>

\* output = output + self.dropout(sublayer(self.layer_norm(output), ...)):
\* the four calls of one pre-norm residual sub-step, appended to log.
Residual(log, out, op, module, index, iter, mask) ==
    LET n == Len(log)
    IN  log \o << Call("layer_norm", NormModule, -1, iter, <<out>>, NoMask),
                  Call(op, module, index, iter, SubInputs(op, n + 1), mask),
                  Call("dropout", 0, -1, iter, <<n + 2>>, NoMask),
                  Call("add", 0, -1, iter, <<out, n + 3>>, NoMask) >>

\* ------------------------------------------------- SpecStack: construction

\* Encoder.__init__: attention, position_feed_forward, position, layer_norm
\* are constructed in this order, each a new module.
EncoderInit(we, share, nstacks) ==
    LET n == ListLength(share, nstacks)
    IN  /\ kind = "Encoder"
        /\ with_encoder = we
        /\ share_parameter = share
        /\ stacks = nstacks
        /\ attention = ModuleList(0, n)
        /\ source_attention = <<>>
        /\ position_feed_forward = ModuleList(n, n)
        /\ position = 2 * n + 1
        /\ layer_norm = 2 * n + 2
        /\ embedding = 0
        /\ modules = [m \in 1..(2 * n + 2) |->
                        IF m <= n THEN "MultiHeadAttention"
                        ELSE IF m <= 2 * n THEN "PositionwiseFeedForward"
                        ELSE IF m = 2 * n + 1 THEN "PositionalEncoding"
                        ELSE "LayerNorm"]

\* Decoder.__init__: attention, source_attention, position_feed_forward,
\* position, layer_norm, embedding.
DecoderInit(share, nstacks) ==
    LET n == ListLength(share, nstacks)
    IN  /\ kind = "Decoder"
        /\ with_encoder = TRUE
        /\ share_parameter = share
        /\ stacks = nstacks
        /\ attention = ModuleList(0, n)
        /\ source_attention = ModuleList(n, n)
        /\ position_feed_forward = ModuleList(2 * n, n)
        /\ position = 3 * n + 1
        /\ layer_norm = 3 * n + 2
        /\ embedding = 3 * n + 3
        /\ modules = [m \in 1..(3 * n + 3) |->
                        IF m <= 2 * n THEN "MultiHeadAttention"
                        ELSE IF m <= 3 * n THEN "PositionwiseFeedForward"
                        ELSE IF m = 3 * n + 1 THEN "PositionalEncoding"
                        ELSE IF m = 3 * n + 2 THEN "LayerNorm"
                        ELSE "Embedding"]

\* The state after construction, at the entry of forward.  The argument of
\* forward has target_length positions; the decoder's _memory has
\* memory_length positions.
StackStart ==
    /\ \E share \in BOOLEAN, nstacks \in 0..MaxStacks :
          \/ \E we \in BOOLEAN : EncoderInit(we, share, nstacks)
          \/ DecoderInit(share, nstacks)
    /\ target_length \in 1..MaxLen
    /\ memory_length \in 1..MaxLen
    /\ pc = "entry"
    /\ i = 0
    /\ output = 0
    /\ source_mask = NoMask
    /\ target_mask = NoMask
    /\ calls = <<>>

config == <<kind, with_encoder, share_parameter, stacks, attention,
            source_attention, position_feed_forward, position, layer_norm,
            embedding, modules, target_length, memory_length>>

\* --------------------------------------------------- Encoder.forward steps

\* mutant: the stack runs whatever with_encoder says
EncPositionAlwaysActive ==
    /\ kind = "Encoder" /\ pc = "entry"
    /\ calls' = Append(calls, Call("position", position, -1, -1, <<0>>, NoMask))
    /\ output' = Len(calls) + 1
    /\ pc' = "mask"
    /\ UNCHANGED <<config, i, source_mask, target_mask>>
    /\ StackFrame

\* output = self.position(_input_tensor); if self.with_encoder: ...
EncPosition ==
    /\ kind = "Encoder" /\ pc = "entry"
    /\ calls' = Append(calls, Call("position", position, -1, -1, <<0>>, NoMask))
    /\ output' = Len(calls) + 1
    /\ pc' = IF with_encoder THEN "mask" ELSE "return"
    /\ UNCHANGED <<config, i, source_mask, target_mask>>
    /\ StackFrame

\* source_mask = self._generate_mask(output): torch.ones((L, L))
EncGenerateMask ==
    /\ kind = "Encoder" /\ pc = "mask"
    /\ source_mask' = [name |-> "ones", shape |-> <<target_length, target_length>>]
    /\ i' = 0
    /\ pc' = "attention"
    /\ UNCHANGED <<config, output, target_mask, calls>>
    /\ StackFrame

\* for i in range(self.stacks): first residual sub-step (self-attention)
EncSelfAttention ==
    /\ kind = "Encoder" /\ pc = "attention" /\ i < stacks
    /\ LET actual_i == ActualI(i)
       IN  IF InRange(attention, actual_i)
           THEN /\ calls' = Residual(calls, output, "attention",
                                     At(attention, actual_i), actual_i, i, source_mask)
                /\ output' = Len(calls) + 4
                /\ pc' = "feed_forward"
           ELSE /\ pc' = "IndexError"
                /\ UNCHANGED <<calls, output>>
    /\ UNCHANGED <<config, i, source_mask, target_mask>>
    /\ StackFrame

\* second residual sub-step (feed-forward); the loop variable advances
EncFeedForward ==
    /\ kind = "Encoder" /\ pc = "feed_forward"
    /\ LET actual_i == ActualI(i)
       IN  IF InRange(position_feed_forward, actual_i)
           THEN /\ calls' = Residual(calls, output, "feed_forward",
                                     At(position_feed_forward, actual_i), actual_i, i, NoMask)
                /\ output' = Len(calls) + 4
                /\ i' = i + 1
                /\ pc' = "attention"
           ELSE /\ pc' = "IndexError"
                /\ UNCHANGED <<calls, output, i>>
    /\ UNCHANGED <<config, source_mask, target_mask>>
    /\ StackFrame

\* after the loop, still inside `if self.with_encoder`:
\* output = self.layer_norm(output)
EncFinalNorm ==
    /\ kind = "Encoder" /\ pc = "attention" /\ i >= stacks
    /\ calls' = Append(calls, Call("layer_norm", NormModule, -1, -1, <<output>>, NoMask))
    /\ output' = Len(calls) + 1
    /\ pc' = "return"
    /\ UNCHANGED <<config, i, source_mask, target_mask>>
    /\ StackFrame

\* return output
EncReturn ==
    /\ kind = "Encoder" /\ pc = "return"
    /\ pc' = "done"
    /\ UNCHANGED <<config, i, output, source_mask, target_mask, calls>>
    /\ StackFrame

\* --------------------------------------------------- Decoder.forward steps

\* target = self.embedding(_target_result) * self.sqrt_model_size
DecEmbedding ==
    /\ kind = "Decoder" /\ pc = "entry"
    /\ calls' = calls \o << Call("embedding", embedding, -1, -1, <<0>>, NoMask),
                            Call("mul_sqrt_model_size", 0, -1, -1, <<Len(calls) + 1>>, NoMask) >>
    /\ output' = Len(calls) + 2
    /\ pc' = "position"
    /\ UNCHANGED <<config, i, source_mask, target_mask>>
    /\ StackFrame

\* target = self.position(target)
DecPosition ==
    /\ kind = "Decoder" /\ pc = "position"
    /\ calls' = Append(calls, Call("position", position, -1, -1, <<output>>, NoMask))
    /\ output' = Len(calls) + 1
    /\ pc' = "mask"
    /\ UNCHANGED <<config, i, source_mask, target_mask>>
    /\ StackFrame

\* source_mask, target_mask = self._generate_target_mask(_memory, _target_result)
\* source_mask is ones((target_length, _source.size(1))); target_mask is the
\* padding mask AND the lower triangle (its entries are SpecAttention's).
\* `shape` holds the sizes of the query and key axes, the last two.
DecGenerateTargetMask ==
    /\ kind = "Decoder" /\ pc = "mask"
    /\ source_mask' = [name |-> "ones", shape |-> <<target_length, memory_length>>]
    /\ target_mask' = [name |-> "target_pad_mask & target_sub_mask",
                       shape |-> <<target_length, target_length>>]
    /\ i' = 0
    /\ pc' = "attention"
    /\ UNCHANGED <<config, output, calls>>
    /\ StackFrame

DecSelfAttention ==
    /\ kind = "Decoder" /\ pc = "attention" /\ i < stacks
    /\ LET actual_i == ActualI(i)
       IN  IF InRange(attention, actual_i)
           THEN /\ calls' = Residual(calls, output, "attention",
                                     At(attention, actual_i), actual_i, i, target_mask)
                /\ output' = Len(calls) + 4
                /\ pc' = "source_attention"
           ELSE /\ pc' = "IndexError"
                /\ UNCHANGED <<calls, output>>
    /\ UNCHANGED <<config, i, source_mask, target_mask>>
    /\ StackFrame

DecSourceAttention ==
    /\ kind = "Decoder" /\ pc = "source_attention"
    /\ LET actual_i == ActualI(i)
       IN  IF InRange(source_attention, actual_i)
           THEN /\ calls' = Residual(calls, output, "source_attention",
                                     At(source_attention, actual_i), actual_i, i, source_mask)
                /\ output' = Len(calls) + 4
                /\ pc' = "feed_forward"
           ELSE /\ pc' = "IndexError"
                /\ UNCHANGED <<calls, output>>
    /\ UNCHANGED <<config, i, source_mask, target_mask>>
    /\ StackFrame

DecFeedForward ==
    /\ kind = "Decoder" /\ pc = "feed_forward"
    /\ LET actual_i == ActualI(i)
       IN  IF InRange(position_feed_forward, actual_i)
           THEN /\ calls' = Residual(calls, output, "feed_forward",
                                     At(position_feed_forward, actual_i), actual_i, i, NoMask)
                /\ output' = Len(calls) + 4
                /\ i' = i + 1
                /\ pc' = "attention"
           ELSE /\ pc' = "IndexError"
                /\ UNCHANGED <<calls, output, i>>
    /\ UNCHANGED <<config, source_mask, target_mask>>
    /\ StackFrame

\* return self.layer_norm(output)
DecReturn ==
    /\ kind = "Decoder" /\ pc = "attention" /\ i >= stacks
    /\ calls' = Append(calls, Call("layer_norm", NormModule, -1, -1, <<output>>, NoMask))
    /\ output' = Len(calls) + 1
    /\ pc' = "done"
    /\ UNCHANGED <<config, i, source_mask, target_mask>>
    /\ StackFrame

StackNext ==
    \/ EncPosition \/ EncGenerateMask \/ EncSelfAttention
    \/ EncFeedForward \/ EncFinalNorm \/ EncReturn
    \/ DecEmbedding \/ DecPosition \/ DecGenerateTargetMask
    \/ DecSelfAttention \/ DecSourceAttention \/ DecFeedForward \/ DecReturn

\* ------------------------------------------------------------- tensors
\* A tensor axis of size n is the domain 0..n-1.  Tensors are nested
\* functions, outermost axis first.  The last axis of the projected
\* query/key/value tensors (d_k) has size 1 here and is folded away: the
\* entry [b][hd][r] is the single component of position r of head hd.
Axis(n) == 0..(n - 1)

\* Broadcasting of one axis: an axis of size 1 is read at index 0 whatever
\* the index asked for, and the result has the other operand's size.
Bidx(dom, k) == IF dom = {0} THEN 0 ELSE k
Bdom(d1, d2) == IF d1 = {0} THEN d2 ELSE d1

Max(S) == CHOOSE m \in S : \A n \in S : n <= m
Min(S) == CHOOSE m \in S : \A n \in S : m <= n

RECURSIVE Pow2(_)
Pow2(n) == IF n <= 0 THEN 1 ELSE 2 * Pow2(n - 1)

RECURSIVE SumOver(_, _)
SumOver(f, S) ==
    IF S = {} THEN 0
    ELSE LET k == CHOOSE k \in S : TRUE IN f[k] + SumOver(f, S \ {k})

\* --------------------------------------------------------- the two masks

\* torch.tril(torch.ones((n, n))): entry (i, j) is 1 for j <= i, else 0
Tril(n) == [r \in Axis(n) |-> [c \in Axis(n) |-> IF c <= r THEN 1 ELSE 0]]

\* subsequent_mask(_target): tril(ones((batch_size, 1, L, L), dtype=bool))
subsequent_mask(batch_size, sequence_length) ==
    [b \in Axis(batch_size) |-> [hd \in {0} |-> Tril(sequence_length)]]

\* mutant: .unsqueeze(1).unsqueeze(2), shape (B, 1, 1, L): padding on the keys
target_pad_mask_on_keys(target, pad) ==
    [b \in DOMAIN target |-> [hd \in {0} |->
        [r \in {0} |-> [c \in DOMAIN target[b] |->
            IF target[b][c] # pad THEN 1 ELSE 0]]]]

\* (_target != self.padding_symbol).unsqueeze(1).unsqueeze(3): shape (B, 1, L, 1)
target_pad_mask(target, pad) ==
    [b \in DOMAIN target |-> [hd \in {0} |->
        [r \in DOMAIN target[b] |-> [c \in {0} |->
            IF target[b][r] # pad THEN 1 ELSE 0]]]]

\* a & m for a of rank 4 and m of rank 2, broadcast over the last two axes
BroadcastAnd(a, m) ==
    [b \in DOMAIN a |-> [hd \in DOMAIN a[b] |->
        [r \in Bdom(DOMAIN a[b][hd], DOMAIN m) |->
            [c \in Bdom(DOMAIN a[b][hd][Bidx(DOMAIN a[b][hd], r)], DOMAIN m[Bidx(DOMAIN m, r)]) |->
                LET ar == a[b][hd][Bidx(DOMAIN a[b][hd], r)]
                    mr == m[Bidx(DOMAIN m, r)]
                IN  IF ar[Bidx(DOMAIN ar, c)] = 1 /\ mr[Bidx(DOMAIN mr, c)] = 1
                    THEN 1 ELSE 0]]]]

\* Decoder._generate_target_mask: target_mask = target_pad_mask & target_sub_mask.bool()
\* (target has at least one row)
generate_target_mask(target, pad) ==
    BroadcastAnd(target_pad_mask(target, pad), Tril(Cardinality(DOMAIN target[0])))

\* ------------------------------------------------- dot_product_attention

\* score.masked_fill(_mask == 0, -1e9)
MaskFill == -1000000000

\* F.softmax computes exp(score - max) / sum; in floating point an exponent
\* this far below the row maximum gives exactly 0.
ExpUnderflow == 104

\* F.softmax(row): the weights of one query row as <<numerator, denominator>>
\* pairs.  exp is modelled to base 2 on integer scores (a change of base is a
\* rescaling of the scores, which dividing by sqrt(d_k) already is); the
\* numerators are scaled by the smallest exponent that does not underflow.
Softmax(row) ==
    LET m == Max({row[c] : c \in DOMAIN row})
        alive == {c \in DOMAIN row : row[c] - m >= -ExpUnderflow}
        lo == Min({row[c] : c \in alive})
        num == [c \in DOMAIN row |-> IF c \in alive THEN Pow2(row[c] - lo) ELSE 0]
        den == SumOver(num, DOMAIN row)
    IN  [c \in DOMAIN row |-> <<num[c], den>>]

\* mutant: the mask is not applied
UnmaskedScore(q, k, mask2, r, c) == q[r] * k[c]

\* One entry of score after masked_fill; the mask is broadcast over the batch
\* (a rank-2 mask) or over the heads (a rank-4 mask with a head axis of size 1).
MaskedScore(q, k, mask2, r, c) ==
    IF mask2[Bidx(DOMAIN mask2, r)][Bidx(DOMAIN mask2[Bidx(DOMAIN mask2, r)], c)] = 0
    THEN MaskFill
    ELSE q[r] * k[c]

\* dot_product_attention(_query, _key, _value, _mask) with a rank-4 mask:
\*   score = matmul(_query, _key^T) / sqrt(d_k); masked_fill; softmax;
\*   returns (matmul(p_attn, _value), p_attn).
\* The product is kept as <<sum of numerator * value, denominator>>.
dot_product_attention(query, key, value, mask) ==
    LET p == [b \in DOMAIN query |-> [hd \in DOMAIN query[b] |->
                [r \in DOMAIN query[b][hd] |->
                    Softmax([c \in DOMAIN key[b][hd] |->
                        MaskedScore(query[b][hd], key[b][hd],
                                    mask[Bidx(DOMAIN mask, b)][0], r, c)])]]]
    IN  [p_attn |-> p,
         product |-> [b \in DOMAIN query |-> [hd \in DOMAIN query[b] |->
                        [r \in DOMAIN query[b][hd] |->
                            << SumOver([c \in DOMAIN key[b][hd] |->
                                          p[b][hd][r][c][1] * value[b][hd][c]],
                                       DOMAIN key[b][hd]),
                               p[b][hd][r][0][2] >>]]]]

\* l(x).view(batch_size, -1, self.h, self.d_k).transpose(1, 2) for a model
\* dimension of 1 (h = 1, d_k = 1): a Linear is one weight, and the result has
\* a head axis of size 1.
Project(w, t) == [b \in DOMAIN t |-> [hd \in {0} |-> [r \in DOMAIN t[b] |-> w * t[b][r]]]]

\* --------------------------------- SpecAttention: mask, then self-attention
Tokens == {0, 1}
Activations == {0, 1}
Weights == {-1, 1}

Shapes == {s \in (1..MaxCells) \X (1..MaxCells) : s[1] * s[2] <= MaxCells}

AttnStart ==
    /\ \E s \in Shapes :
          /\ _target \in [Axis(s[1]) -> [Axis(s[2]) -> Tokens]]
          /\ normed_output \in [Axis(s[1]) -> [Axis(s[2]) -> Activations]]
    /\ padding_symbol \in Tokens
    /\ linears \in [{"q", "k", "v"} -> Weights]
    /\ self_mask = <<>>
    /\ p_attn = <<>>
    /\ x = <<>>
    /\ apc = "mask"

\* Decoder.forward: source_mask, target_mask = self._generate_target_mask(...)
GenerateTargetMask ==
    /\ apc = "mask"
    /\ self_mask' = generate_target_mask(_target, padding_symbol)
    /\ apc' = "attention"
    /\ UNCHANGED <<_target, padding_symbol, normed_output, linears, p_attn, x>>
    /\ AttnFrame

\* Decoder.forward: self.attention[actual_i](normed_output, normed_output,
\* normed_output, target_mask), i.e. MultiHeadAttention.forward: the three
\* projections, then dot_product_attention.
SelfAttention ==
    /\ apc = "attention"
    /\ LET r == dot_product_attention(Project(linears["q"], normed_output),
                                      Project(linears["k"], normed_output),
                                      Project(linears["v"], normed_output),
                                      self_mask)
       IN  /\ p_attn' = r.p_attn
           /\ x' = r.product
    /\ apc' = "done"
    /\ UNCHANGED <<_target, padding_symbol, normed_output, linears, self_mask>>
    /\ AttnFrame

AttnNext == GenerateTargetMask \/ SelfAttention

\* ----------------------------- SpecCausal: attention under a causal mask
Values == {0, 1}

CausalStart ==
    /\ \E n \in 1..MaxLen :
          /\ _query \in [Axis(n) -> Values]
          /\ _key \in [Axis(n) -> Values]
          /\ _value \in [Axis(n) -> Values]
    /\ _mask = <<>>
    /\ product = <<>>
    /\ key2 = _key
    /\ value2 = _value
    /\ product2 = <<>>
    /\ cpc = "mask"

\* a tensor of shape (1, 1, n) from its n entries
Unsqueeze(t) == [b \in {0} |-> [hd \in {0} |-> t]]

\* mask = subsequent_mask(_target) for a batch of one sequence
SubsequentMask ==
    /\ cpc = "mask"
    /\ _mask' = subsequent_mask(1, Cardinality(DOMAIN _query))
    /\ cpc' = "attend"
    /\ UNCHANGED <<_query, _key, _value, product, key2, value2, product2>>
    /\ CausalFrame

\* dot_product_attention(_query, _key, _value, mask)
Attend ==
    /\ cpc = "attend"
    /\ product' = dot_product_attention(Unsqueeze(_query), Unsqueeze(_key),
                                        Unsqueeze(_value), _mask)
    /\ cpc' = "perturb"
    /\ UNCHANGED <<_query, _key, _value, _mask, key2, value2, product2>>
    /\ CausalFrame

\* the caller changes the key and the value at one position
Perturb ==
    /\ cpc = "perturb"
    /\ \E c \in DOMAIN _key, kc \in Values, vc \in Values :
          /\ key2' = [_key EXCEPT ![c] = kc]
          /\ value2' = [_value EXCEPT ![c] = vc]
    /\ cpc' = "attend2"
    /\ UNCHANGED <<_query, _key, _value, _mask, product, product2>>
    /\ CausalFrame

\* dot_product_attention(_query, key2, value2, mask)
AttendAgain ==
    /\ cpc = "attend2"
    /\ product2' = dot_product_attention(Unsqueeze(_query), Unsqueeze(key2),
                                         Unsqueeze(value2), _mask)
    /\ cpc' = "done"
    /\ UNCHANGED <<_query, _key, _value, _mask, product, key2, value2>>
    /\ CausalFrame

CausalNext == SubsequentMask \/ Attend \/ Perturb \/ AttendAgain

\* ------------------------------------------- SpecPE: PositionalEncoding

\* pe[:, 0::2] = sin(position * div_term); pe[:, 1::2] = cos(position * div_term):
\* the buffer of shape (1, _max_len, _dimensions), its entries kept symbolic
\* as <<function, position, index into div_term>>
PositionalTable(dimensions, max_len) ==
    [o \in {0} |-> [pos \in Axis(max_len) |-> [d \in Axis(dimensions) |->
        <<IF d % 2 = 0 THEN "sin" ELSE "cos", pos, d \div 2>>]]]

\* t[:, :n] on a tensor of rank 3: Python clamps the end of a slice to the
\* size of the axis
SliceRows(t, n) ==
    [o \in DOMAIN t |->
        [pos \in {q \in DOMAIN t[o] : q < n} |-> t[o][pos]]]

\* two axes broadcast together when they are equal or one has size 1
Broadcastable(d1, d2) == d1 = d2 \/ d1 = {0} \/ d2 = {0}

\* a + t for tensors of rank 3 (a of shape (B, n, D), t of shape (1, m, D)):
\* a RuntimeError when an axis does not broadcast, else the elementwise sums,
\* each kept as the pair of its operands
BroadcastAdd(a, t) ==
    IF /\ Broadcastable(DOMAIN a, DOMAIN t)
       /\ Broadcastable(DOMAIN a[0], DOMAIN t[0])
       /\ Broadcastable(DOMAIN a[0][0], DOMAIN t[0][0])
    THEN [status |-> "ok",
          value |-> [b \in Bdom(DOMAIN a, DOMAIN t) |->
                      [r \in Bdom(DOMAIN a[0], DOMAIN t[0]) |->
                        [d \in Bdom(DOMAIN a[0][0], DOMAIN t[0][0]) |->
                          << a[Bidx(DOMAIN a, b)][Bidx(DOMAIN a[0], r)][Bidx(DOMAIN a[0][0], d)],
                             t[Bidx(DOMAIN t, b)][Bidx(DOMAIN t[0], r)][Bidx(DOMAIN t[0][0], d)] >>]]]]
    ELSE [status |-> "RuntimeError", value |-> <<>>]

\* PositionalEncoding.forward: _input_tensor + self.pe[:, :_input_tensor.size(1)],
\* then self.dropout (elementwise: it keeps the shape and which table row
\* went into which position)
PositionalForward(input, table) ==
    BroadcastAdd(input, SliceRows(table, Cardinality(DOMAIN input[0])))

\* PositionalEncoding.__init__ for an even _dimensions, then an input of
\* shape (B, n, _dimensions) whose position vectors are constant
PEStart ==
    /\ _dimensions = 2
    /\ _max_len \in 1..MaxLen
    /\ pe = PositionalTable(_dimensions, _max_len)
    /\ \E s \in Shapes :
          \E tok \in [Axis(s[1]) -> [Axis(s[2]) -> Values]] :
              _input_tensor = [b \in Axis(s[1]) |-> [r \in Axis(s[2]) |->
                                  [d \in Axis(_dimensions) |-> tok[b][r]]]]
    /\ pe_result = [status |-> "none", value |-> <<>>]
    /\ ppc = "forward"

PEForward ==
    /\ ppc = "forward"
    /\ pe_result' = PositionalForward(_input_tensor, pe)
    /\ ppc' = "done"
    /\ UNCHANGED <<_dimensions, _max_len, pe, _input_tensor>>
    /\ PEFrame

PENext == PEForward

\* ----------------------------------- SpecMHA: shapes through forward
\* A shape is a sequence of axis sizes; <<>> stands for a failed operation.
RECURSIVE Numel(_)
Numel(shape) == IF shape = <<>> THEN 1 ELSE Head(shape) * Numel(Tail(shape))

\* mutant: d_k is the whole model dimension
HeadDimWhole(dimensions, heads) == dimensions

\* self.d_k = int(_dimensions / _multi_attention_heads)
HeadDim(dimensions, heads) == dimensions \div heads

\* nn.Linear(in, out) on a tensor whose last axis is `in`
LinearShape(shape, in, out) ==
    IF shape # <<>> /\ shape[Len(shape)] = in
    THEN [k \in 1..Len(shape) |-> IF k = Len(shape) THEN out ELSE shape[k]]
    ELSE <<>>

\* t.view(b, -1, c...) : `pre` and `post` are the sizes before and after the
\* -1; the -1 is the quotient of the element counts, and the view fails when
\* it is not exact or cannot be inferred
ViewShape(shape, pre, post) ==
    LET known == Numel(pre) * Numel(post)
    IN  IF shape = <<>> \/ known = 0 \/ Numel(shape) % known # 0
        THEN <<>>
        ELSE pre \o <<Numel(shape) \div known>> \o post

\* t.transpose(a, b), axes counted from 0
TransposeShape(shape, a, b) ==
    IF shape = <<>> THEN <<>>
    ELSE [k \in 1..Len(shape) |->
            IF k = a + 1 THEN shape[b + 1]
            ELSE IF k = b + 1 THEN shape[a + 1] ELSE shape[k]]

\* torch.matmul of two rank-4 tensors with equal leading axes:
\* (N, h, a, b) x (N, h, b, c) -> (N, h, a, c)
MatmulShape(s1, s2) ==
    IF /\ Len(s1) = 4 /\ Len(s2) = 4
       /\ s1[1] = s2[1] /\ s1[2] = s2[2] /\ s1[4] = s2[3]
    THEN <<s1[1], s1[2], s1[3], s2[4]>>
    ELSE <<>>

\* score.masked_fill(mask == 0, ...): the mask must broadcast to score's shape
MaskFits(score, mask) ==
    /\ score # <<>>
    /\ Len(mask) <= Len(score)
    /\ \A k \in 1..Len(mask) :
          LET sk == score[Len(score) - Len(mask) + k]
          IN  mask[k] = sk \/ mask[k] = 1

\* dot_product_attention on shapes: the shape of matmul(p_attn, _value)
AttentionShape(q, k, v, mask) ==
    LET score == MatmulShape(q, TransposeShape(k, 2, 3))
    IN  IF MaskFits(score, mask) THEN MatmulShape(score, v) ELSE <<>>

\* MultiHeadAttention.__init__ (assert _dimensions % _multi_attention_heads == 0)
\* and the arguments of one forward: a query of query_len positions, key and
\* value of key_len positions, and a mask of rank 2 (Encoder, cross-attention)
\* or of rank 4 (the decoder's target mask)
MHAStart ==
    /\ d_model \in 1..MaxDim
    /\ h \in 1..MaxDim
    /\ d_k = HeadDim(d_model, h)
    /\ \E batch_size \in 1..MaxBatch, query_len \in 1..MaxLen, key_len \in 1..MaxLen :
          /\ query_shape = <<batch_size, query_len, d_model>>
          /\ key_shape = <<batch_size, key_len, d_model>>
          /\ value_shape = <<batch_size, key_len, d_model>>
          /\ mask_shape \in {<<query_len, key_len>>, <<batch_size, 1, query_len, key_len>>}
    /\ x_shape = <<>>
    /\ mpc = IF d_model % h = 0 THEN "project" ELSE "AssertionError"

\* l(x).view(batch_size, -1, self.h, self.d_k).transpose(1, 2)
SplitHeads(shape) ==
    TransposeShape(ViewShape(LinearShape(shape, d_model, d_model),
                             <<shape[1]>>, <<h, d_k>>), 1, 2)

\* _query, _key, _value = [l(x).view(...).transpose(1, 2) for l, x in zip(...)]
MHAProject ==
    /\ mpc = "project"
    /\ query_shape' = SplitHeads(query_shape)
    /\ key_shape' = SplitHeads(key_shape)
    /\ value_shape' = SplitHeads(value_shape)
    /\ mpc' = IF <<>> \in {query_shape', key_shape', value_shape'}
              THEN "RuntimeError" ELSE "attention"
    /\ UNCHANGED <<h, d_k, d_model, mask_shape, x_shape>>
    /\ MHAFrame

\* x = self.dot_product_attention(_query, _key, _value, _mask=_mask)[0]
MHAAttention ==
    /\ mpc = "attention"
    /\ x_shape' = AttentionShape(query_shape, key_shape, value_shape, mask_shape)
    /\ mpc' = IF x_shape' = <<>> THEN "RuntimeError" ELSE "concat"
    /\ UNCHANGED <<h, d_k, d_model, query_shape, key_shape, value_shape, mask_shape>>
    /\ MHAFrame

\* x = x.transpose(1, 2).contiguous().view(batch_size, -1, self.h * self.d_k)
MHAConcat ==
    /\ mpc = "concat"
    /\ x_shape' = ViewShape(TransposeShape(x_shape, 1, 2), <<x_shape[1]>>, <<h * d_k>>)
    /\ mpc' = IF x_shape' = <<>> THEN "RuntimeError" ELSE "output"
    /\ UNCHANGED <<h, d_k, d_model, query_shape, key_shape, value_shape, mask_shape>>
    /\ MHAFrame

\* return self.linears[-1](x)
MHAOutput ==
    /\ mpc = "output"
    /\ x_shape' = LinearShape(x_shape, d_model, d_model)
    /\ mpc' = IF x_shape' = <<>> THEN "RuntimeError" ELSE "done"
    /\ UNCHANGED <<h, d_k, d_model, query_shape, key_shape, value_shape, mask_shape>>
    /\ MHAFrame

MHANext == MHAProject \/ MHAAttention \/ MHAConcat \/ MHAOutput

\* ------------------------------------------------------- specifications
StackIdle ==
    /\ kind = "none" /\ with_encoder = FALSE /\ share_parameter = FALSE
    /\ stacks = 0 /\ attention = <<>> /\ source_attention = <<>>
    /\ position_feed_forward = <<>> /\ position = 0 /\ layer_norm = 0
    /\ embedding = 0 /\ modules = <<>> /\ target_length = 0
    /\ memory_length = 0 /\ pc = "idle" /\ i = 0 /\ output = 0
    /\ source_mask = NoMask /\ target_mask = NoMask /\ calls = <<>>

AttnIdle ==
    /\ _target = <<>> /\ padding_symbol = 0 /\ normed_output = <<>>
    /\ linears = <<>> /\ self_mask = <<>> /\ p_attn = <<>> /\ x = <<>>
    /\ apc = "idle"

CausalIdle ==
    /\ _query = <<>> /\ _key = <<>> /\ _value = <<>> /\ _mask = <<>>
    /\ product = <<>> /\ key2 = <<>> /\ value2 = <<>> /\ product2 = <<>>
    /\ cpc = "idle"

PEIdle ==
    /\ _dimensions = 0 /\ _max_len = 0 /\ pe = <<>> /\ _input_tensor = <<>>
    /\ pe_result = [status |-> "none", value |-> <<>>] /\ ppc = "idle"

MHAIdle ==
    /\ h = 0 /\ d_k = 0 /\ d_model = 0 /\ query_shape = <<>> /\ key_shape = <<>>
    /\ value_shape = <<>> /\ mask_shape = <<>> /\ x_shape = <<>> /\ mpc = "idle"

StackInit == StackStart /\ AttnIdle /\ CausalIdle /\ PEIdle /\ MHAIdle
SpecStack == StackInit /\ [][StackNext]_vars

AttnInit == AttnStart /\ StackIdle /\ CausalIdle /\ PEIdle /\ MHAIdle
SpecAttention == AttnInit /\ [][AttnNext]_vars

CausalInit == CausalStart /\ StackIdle /\ AttnIdle /\ PEIdle /\ MHAIdle
SpecCausal == CausalInit /\ [][CausalNext]_vars

PEInit == PEStart /\ StackIdle /\ AttnIdle /\ CausalIdle /\ MHAIdle
SpecPE == PEInit /\ [][PENext]_vars

MHAInit == MHAStart /\ StackIdle /\ AttnIdle /\ CausalIdle /\ PEIdle
SpecMHA == MHAInit /\ [][MHANext]_vars

\* ================================================================ claims

\* ------------------------------------------------ SpecAttention: C1 C2 C9

\* C1: the mask built by Decoder._generate_target_mask has shape
\* (B, 1, L, L) and its entry (b, 0, r, c) is set exactly when
\* _target[b][r] is not the padding symbol and c <= r: the padding acts on
\* the query index and is AND-ed with the inclusive lower triangle.
C1_TargetMask ==
    apc \in {"attention", "done"} =>
        /\ DOMAIN self_mask = DOMAIN _target
        /\ \A b \in DOMAIN _target :
              /\ DOMAIN self_mask[b] = {0}
              /\ DOMAIN self_mask[b][0] = DOMAIN _target[b]
              /\ \A r \in DOMAIN _target[b] :
                    /\ DOMAIN self_mask[b][0][r] = DOMAIN _target[b]
                    /\ \A c \in DOMAIN _target[b] :
                          (self_mask[b][0][r][c] = 1)
                              <=> (_target[b][r] # padding_symbol /\ c <= r)

\* a batch of two rows, one with a padding token before a real token
C1_Witness ==
    /\ apc = "attention"
    /\ Cardinality(DOMAIN _target) = 2
    /\ \E b \in DOMAIN _target :
          /\ 1 \in DOMAIN _target[b]
          /\ _target[b][0] = padding_symbol
          /\ _target[b][1] # padding_symbol
          /\ self_mask[b][0][0][0] = 0
          /\ self_mask[b][0][1][0] = 1

\* C2 (as claimed): when the last token of a target row is the padding
\* symbol, every query row of the self-attention weights, the padded last
\* row included, gives weight 0 to the last key, and a positive weight to
\* each earlier non-padding key that is not in the query's future.  (Stated
\* for rows that begin with a real token, as in the scenario of the claim.)
C2_PaddedKeyUnattended ==
    apc = "done" =>
        \A b \in DOMAIN _target :
            LET last == Cardinality(DOMAIN _target[b]) - 1
            IN  (last >= 1 /\ _target[b][0] # padding_symbol
                           /\ _target[b][last] = padding_symbol) =>
                    \A r \in DOMAIN _target[b] :
                        /\ p_attn[b][0][r][last][1] = 0
                        /\ \A c \in 0..r :
                              (c < last /\ _target[b][c] # padding_symbol)
                                  => p_attn[b][0][r][c][1] > 0

\* C9 (as claimed): every query row of the self-attention mask the Decoder
\* passes to attention keeps at least one key unmasked, wherever the padding
\* symbols are.  (Stated for rows that begin with a real token: a row of
\* padding only is not needed to refute it.)
C9_NoFullyMaskedRow ==
    apc = "done" =>
        \A b \in DOMAIN _target :
            _target[b][0] # padding_symbol =>
                \A r \in DOMAIN _target[b] :
                    \E c \in DOMAIN _target[b] : self_mask[b][0][r][c] = 1

\* ------------------------------------------------------- SpecCausal: C3

\* C3: under subsequent_mask the attention weight at (r, c) is 0 for every
\* c > r, and the product at a query row r is the same in the second call
\* when the keys and values of that call agree with the first on 0..r.
C3_CausalNonInterference ==
    /\ cpc \in {"perturb", "attend2", "done"} =>
          \A r \in DOMAIN _query : \A c \in DOMAIN _key :
              c > r => product.p_attn[0][0][r][c][1] = 0
    /\ cpc = "done" =>
          \A r \in DOMAIN _query :
              (\A c \in 0..r : key2[c] = _key[c] /\ value2[c] = _value[c])
                  => product2.product[0][0][r] = product.product[0][0][r]

\* a later key and value were changed, a later row's product moved, and the
\* rows before the change kept theirs
C3_Witness ==
    /\ cpc = "done"
    /\ \E c \in DOMAIN _key :
          /\ c > 0
          /\ key2[c] # _key[c]
          /\ value2[c] # _value[c]
          /\ product2.product[0][0][c] # product.product[0][0][c]
          /\ product2.product[0][0][c - 1] = product.product[0][0][c - 1]

\* ------------------------------------------------ SpecStack: C4 C5 C8 C10

SubLayerOps == {"attention", "source_attention", "feed_forward"}

\* the ModuleList a sub-layer call reads
ListOf(op) ==
    CASE op = "attention" -> attention
      [] op = "source_attention" -> source_attention
      [] OTHER -> position_feed_forward

ListsOf(k) == IF k = "Decoder" THEN SubLayerOps ELSE {"attention", "feed_forward"}

SharingInv ==
    /\ pc # "IndexError"
    /\ \A op \in ListsOf(kind) :
          /\ Len(ListOf(op)) = (IF share_parameter THEN 1 ELSE stacks)
          /\ \A a, b \in DOMAIN ListOf(op) : ListOf(op)[a] = ListOf(op)[b] => a = b
          /\ \A op2 \in ListsOf(kind) \ {op} :
                \A a \in DOMAIN ListOf(op), b \in DOMAIN ListOf(op2) :
                    ListOf(op)[a] # ListOf(op2)[b]
    /\ \A n \in DOMAIN calls :
          calls[n].op \in SubLayerOps =>
              /\ calls[n].index = (IF share_parameter THEN 0 ELSE calls[n].iter)
              /\ InRange(ListOf(calls[n].op), calls[n].index)
              /\ calls[n].module = At(ListOf(calls[n].op), calls[n].index)
    /\ (pc = "done" /\ with_encoder) =>
          \A it \in 0..(stacks - 1) : \A op \in ListsOf(kind) :
              \E n \in DOMAIN calls : calls[n].op = op /\ calls[n].iter = it

\* C4: in shared mode each attention / feed-forward list holds one module
\* and all `stacks` iterations call it (index 0); in independent mode each
\* list holds `stacks` distinct modules and iteration i calls the i-th and no
\* other; the index is always inside the list; the mode and the lists do
\* not change once constructed.
C4_ParameterSharing ==
    /\ SharingInv
    /\ [][ /\ SharingInv'
           /\ UNCHANGED <<share_parameter, stacks, attention, source_attention,
                          position_feed_forward>> ]_vars

\* both modes have run three iterations to the end, in a decoder
C4_Witness ==
    /\ pc = "done" /\ kind = "Decoder" /\ stacks = 3
    /\ \E n \in DOMAIN calls : calls[n].op = "source_attention" /\ calls[n].iter = 2

\* C5: an Encoder constructed with _with_encoder false returns the
\* positional-encoded input: forward made the one call self.position(input)
\* and nothing else, whatever the stack depth and the sharing mode.
C5_InactiveEncoder ==
    (kind = "Encoder" /\ ~with_encoder /\ pc = "done") =>
        /\ Len(calls) = 1
        /\ calls[1].op = "position" /\ calls[1].module = position
        /\ calls[1].args = <<0>>
        /\ output = 1

C5_Witness ==
    kind = "Encoder" /\ ~with_encoder /\ pc = "done" /\ stacks = 2 /\ ~share_parameter

\* C8: Decoder.forward calls embedding, the scaling by sqrt(model size) and
\* the positional encoding, then per iteration three residual sub-steps in
\* the order self-attention (target mask), cross-attention to _memory (ones
\* of shape target_length x memory_length), feed-forward; each sub-step
\* normalizes the current output, feeds the normed tensor to the sub-layer,
\* applies dropout and adds the result to the un-normalized output; one
\* layer normalization follows the last iteration.
C8_DecoderOrder ==
    (kind = "Decoder" /\ pc = "done") =>
        LET last == 12 * stacks + 4
            order == <<"attention", "source_attention", "feed_forward">>
        IN  /\ Len(calls) = last
            /\ calls[1].op = "embedding" /\ calls[1].args = <<0>>
            /\ calls[2].op = "mul_sqrt_model_size" /\ calls[2].args = <<1>>
            /\ calls[3].op = "position" /\ calls[3].args = <<2>>
            /\ \A it \in 0..(stacks - 1) : \A sub \in 0..2 :
                  LET base == 3 + 12 * it + 4 * sub
                  IN  /\ calls[base + 1].op = "layer_norm"
                      /\ calls[base + 1].args = <<base>>
                      /\ calls[base + 2].op = order[sub + 1]
                      /\ calls[base + 2].iter = it
                      /\ calls[base + 2].args =
                            (IF sub = 1 THEN <<base + 1, -1, -1>>
                             ELSE IF sub = 0 THEN <<base + 1, base + 1, base + 1>>
                             ELSE <<base + 1>>)
                      /\ calls[base + 2].mask =
                            (IF sub = 0
                             THEN [name |-> "target_pad_mask & target_sub_mask",
                                   shape |-> <<target_length, target_length>>]
                             ELSE IF sub = 1
                             THEN [name |-> "ones",
                                   shape |-> <<target_length, memory_length>>]
                             ELSE NoMask)
                      /\ calls[base + 3].op = "dropout"
                      /\ calls[base + 3].args = <<base + 2>>
                      /\ calls[base + 4].op = "add"
                      /\ calls[base + 4].args = <<base, base + 3>>
            /\ calls[last].op = "layer_norm"
            /\ calls[last].args = <<last - 1>>
            /\ output = last
            /\ Cardinality({n \in DOMAIN calls : calls[n].op = "layer_norm"})
                  = 3 * stacks + 1

C8_Witness ==
    /\ kind = "Decoder" /\ pc = "done" /\ stacks = 2
    /\ target_length # memory_length

\* C10: an Encoder or Decoder holds exactly one LayerNorm module, in both
\* modes, and every normalization call (before each sub-layer of each
\* iteration, and the final one) is a call of it.
C10_OneLayerNorm ==
    (kind # "none") =>
        /\ Cardinality({m \in DOMAIN modules : modules[m] = "LayerNorm"}) = 1
        /\ modules[layer_norm] = "LayerNorm"
        /\ \A n \in DOMAIN calls :
              calls[n].op = "layer_norm" => calls[n].module = layer_norm

\* independent mode: two different iterations called distinct attention
\* modules and the same LayerNorm
C10_Witness ==
    /\ pc = "done" /\ ~share_parameter /\ stacks >= 2
    /\ \E a, b \in DOMAIN calls :
          /\ calls[a].op = "layer_norm" /\ calls[b].op = "layer_norm"
          /\ calls[a].iter = 0 /\ calls[b].iter = 1
          /\ calls[a].module = calls[b].module
          /\ calls[a + 1].module # calls[b + 1].module

\* ------------------------------------------------------------ SpecPE: C6

\* C6 (as claimed): for every _max_len >= 1, PositionalEncoding.forward on
\* an input with more positions than _max_len ends in an error; it returns
\* no result.
C6_LongInputFails ==
    (ppc = "done" /\ Cardinality(DOMAIN _input_tensor[0]) > _max_len) =>
        pe_result.status = "RuntimeError"

\* ----------------------------------------------------------- SpecMHA: C7

\* C7: when the head count divides the model dimension, forward runs to the
\* end without a shape error, for every batch size, query length and
\* key/value length and either mask rank, and returns a tensor of shape
\* (batch, query length, model dimension); the heads have d_model / h
\* components each.
C7_OutputShape ==
    (mpc # "idle" /\ d_model % h = 0) =>
        LET batch_size == key_shape[1]
            query_len == mask_shape[Len(mask_shape) - 1]
            key_len == mask_shape[Len(mask_shape)]
        IN  /\ mpc \notin {"RuntimeError", "AssertionError"}
            /\ mpc \in {"attention", "concat", "output", "done"} =>
                  /\ query_shape = <<batch_size, h, query_len, d_model \div h>>
                  /\ key_shape = <<batch_size, h, key_len, d_model \div h>>
                  /\ value_shape = key_shape
            /\ mpc = "done" => x_shape = <<batch_size, query_len, d_model>>

\* cross-attention shapes: two heads of two components, key longer than query
C7_Witness ==
    /\ mpc = "done" /\ h = 2 /\ d_model = 4
    /\ key_shape[3] > query_shape[3]
    /\ x_shape = <<2, query_shape[3], 4>>

=============================================================================
